---- MODULE Spec2Model ----
(***************************************************************************)
(* The PreToolUse approval hook (hooks/confirm.py): one run of main() from  *)
(* reading stdin to process exit, against an approval backend whose         *)
(* answers are arbitrary.                                                   *)
(*                                                                          *)
(* Python text is a sequence of fragments, so that an f-string is the       *)
(* concatenation of its literal parts and its interpolated values and       *)
(* "the reason contains X" is "X is one of the fragments".  A Python value  *)
(* is a record [kind, s] where s is its str() rendering.                    *)
(***************************************************************************)
EXTENDS Integers, Sequences, FiniteSets, TLC

VARIABLES stdin, pc, approval_id, elapsed, clock,
          stdout, stderr, exit_code, calls, replies, first

\* first is empty during a run on its own; when the same payload is run a
\* second time it holds what the first run did
vars == <<stdin, pc, approval_id, elapsed, clock,
          stdout, stderr, exit_code, calls, replies, first>>

(* ---------------- configuration ---------------- *)

TIMEOUT_SECONDS == 30

POLL_INTERVAL == 5

HTTP_TIMEOUT == 10

BACKEND_URL == "http://127.0.0.1:3002"

CREATE_URL == <<BACKEND_URL, "/api/approvals/create">>

(* ---------------- Python values ---------------- *)

None == [kind |-> "None", s |-> <<"None">>]

Str(t) == [kind |-> "str", s |-> IF t = "" THEN <<>> ELSE <<t>>]

Num(t) == [kind |-> "int", s |-> <<t>>]

Compound(k, t) == [kind |-> k, s |-> <<t>>]

\* an f-string: the fragments of its parts, in order
FString(parts) == [kind |-> "str", s |-> parts]

\* repr(v) in place of str(v): a string comes out quoted
PyStr_repr(v) == IF v.kind = "str" THEN <<"'">> \o v.s \o <<"'">> ELSE v.s

\* str(v), as an f-string interpolates it
PyStr(v) == v.s

\* "is not None" in place of truthiness
Truthy_notNone(v) == v.kind # "None"

\* bool(v): None, "", 0, [] and {} are falsy
Truthy(v) ==
  CASE v.kind = "None" -> FALSE
    [] v.kind = "str"  -> v.s # <<>>
    [] v.kind = "int"  -> v.s # <<"0">>
    [] v.kind = "list" -> v.s # <<"[]">>
    [] v.kind = "dict" -> v.s # <<"{}">>
    [] OTHER           -> TRUE

\* the default taken only for None
PyOr_isNone(a, b) == IF a.kind # "None" THEN a ELSE b

\* a or b
PyOr(a, b) == IF Truthy(a) THEN a ELSE b

Contains(v, fragment) == \E i \in 1..Len(v.s) : v.s[i] = fragment

(* ---------------- JSON documents ---------------- *)

Keys == {"tool_name", "tool_input", "session_id", "id", "status", "reason"}

\* a parsed object: the keys it has and their values
Dict(fields) ==
  [kind |-> "dict", has |-> DOMAIN fields,
   get  |-> [k \in Keys |-> IF k \in DOMAIN fields THEN fields[k] ELSE None]]

\* a parsed value that is not an object
NonDict(k) == [kind |-> k, has |-> {}, get |-> [k2 \in Keys |-> None]]

Returned(doc) == [exc |-> "", msg |-> "", doc |-> doc]

Raised(exc, msg) == [exc |-> exc, msg |-> msg, doc |-> NonDict("None")]

NoFields == [k \in {} |-> None]

REQ_FULL == "{\"tool_name\": \"Bash\", \"tool_input\": {\"command\": \"ls\"}, \"session_id\": \"s1\"}"

REQ_NULLS == "{\"tool_name\": null, \"session_id\": null}"

ID_A1 == "{\"id\": \"a1\"}"

ID_NULL == "{\"id\": null}"

ID_EMPTY == "{\"id\": \"\"}"

ID_SEVEN == "{\"id\": 7}"

ST_PENDING == "{\"status\": \"pending\"}"

ST_APPROVED == "{\"status\": \"approved\"}"

ST_DENIED == "{\"status\": \"denied\"}"

ST_DENIED_WHY == "{\"status\": \"denied\", \"reason\": \"not allowed here\"}"

ST_DENIED_EMPTY == "{\"status\": \"denied\", \"reason\": \"\"}"

ST_DENIED_NULL == "{\"status\": \"denied\", \"reason\": null}"

ST_DENIED_NUM == "{\"status\": \"denied\", \"reason\": 5}"

ST_TIMED_OUT == "{\"status\": \"timed_out\"}"

ST_FROB == "{\"status\": \"frobnicated\"}"

ST_NULL == "{\"status\": null}"

\* json.loads on the texts the model uses; any other text is not JSON
JsonLoads(text) ==
  CASE text = "{}"   -> Returned(Dict(NoFields))
    [] text = "[1]"  -> Returned(NonDict("list"))
    [] text = "null" -> Returned(NonDict("None"))
    [] text = REQ_FULL ->
         Returned(Dict([tool_name  |-> Str("Bash"),
                        tool_input |-> Compound("dict", "{'command': 'ls'}"),
                        session_id |-> Str("s1")]))
    [] text = REQ_NULLS ->
         Returned(Dict([tool_name |-> None, session_id |-> None]))
    [] text = ID_A1    -> Returned(Dict([id |-> Str("a1")]))
    [] text = ID_NULL  -> Returned(Dict([id |-> None]))
    [] text = ID_EMPTY -> Returned(Dict([id |-> Str("")]))
    [] text = ID_SEVEN -> Returned(Dict([id |-> Num("7")]))
    [] text = ST_PENDING   -> Returned(Dict([status |-> Str("pending")]))
    [] text = ST_APPROVED  -> Returned(Dict([status |-> Str("approved")]))
    [] text = ST_DENIED    -> Returned(Dict([status |-> Str("denied")]))
    [] text = ST_DENIED_WHY ->
         Returned(Dict([status |-> Str("denied"), reason |-> Str("not allowed here")]))
    [] text = ST_DENIED_EMPTY ->
         Returned(Dict([status |-> Str("denied"), reason |-> Str("")]))
    [] text = ST_DENIED_NULL ->
         Returned(Dict([status |-> Str("denied"), reason |-> None]))
    [] text = ST_DENIED_NUM ->
         Returned(Dict([status |-> Str("denied"), reason |-> Num("5")]))
    [] text = ST_TIMED_OUT -> Returned(Dict([status |-> Str("timed_out")]))
    [] text = ST_FROB      -> Returned(Dict([status |-> Str("frobnicated")]))
    [] text = ST_NULL      -> Returned(Dict([status |-> None]))
    [] OTHER -> Raised("JSONDecodeError", "Expecting value: line 1 column 1 (char 0)")

\* a default other than None for an absent key
Get_defaulted(doc, key) == IF key \in doc.has THEN doc.get[key] ELSE Str("unknown")

\* dict.get(key) and dict.get(key, default)
Get(doc, key) == doc.get[key]

GetOr(doc, key, default) == IF key \in doc.has THEN doc.get[key] ELSE default

\* text or "{}"
OrEmptyObject(text) == IF text = "" THEN "{}" ELSE text

(* ---------------- the two output documents ---------------- *)

\* the allow payload pasted into json_error
DenyDoc_pasted(reason) ==
  [hookEventName |-> "PreToolUse", permissionDecision |-> "allow",
   permissionDecisionReason |-> <<reason>>, suppressOutput |-> <<TRUE>>]

DenyDoc(reason) ==
  [hookEventName |-> "PreToolUse", permissionDecision |-> "deny",
   permissionDecisionReason |-> <<reason>>, suppressOutput |-> <<>>]

AllowDoc ==
  [hookEventName |-> "PreToolUse", permissionDecision |-> "allow",
   permissionDecisionReason |-> <<>>, suppressOutput |-> <<TRUE>>]

\* how a run ends: what it prints on stdout and stderr, and its exit status
json_error(reason) == [out |-> <<DenyDoc(reason)>>, err |-> <<>>, code |-> 0]

json_success == [out |-> <<AllowDoc>>, err |-> <<>>, code |-> 0]

\* an exception no handler catches: traceback on stderr, exit status 1
Uncaught(exc) ==
  [out |-> <<>>, err |-> <<FString(<<"Traceback (most recent call last): ", exc>>)>>,
   code |-> 1]

Terminate(notice, end) ==
  /\ pc' = "exited"
  /\ stdout' = stdout \o end.out
  /\ stderr' = stderr \o notice \o end.err
  /\ exit_code' = <<end.code>>

(* ---------------- the backend, as urlopen sees it ---------------- *)

\* response bytes that are not UTF-8
NOT_UTF8 == "<0xff>"

HttpError ==
  [exc |-> "HTTPError", msg |-> "HTTP Error 500: Internal Server Error", body |-> ""]

UrlError ==
  [exc |-> "URLError", msg |-> "<urlopen error [Errno 111] Connection refused>", body |-> ""]

TimedOut == [exc |-> "TimeoutError", msg |-> "timed out", body |-> ""]

\* the backend accepts the connection and closes it without answering:
\* http.client raises RemoteDisconnected, which urlopen does not wrap
Disconnected ==
  [exc |-> "RemoteDisconnected", msg |-> "Remote end closed connection without response",
   body |-> ""]

Body(bytes) == [exc |-> "", msg |-> "", body |-> bytes]

TransportFailures == {HttpError, UrlError, TimedOut, Disconnected}

CreateOutcomes ==
  TransportFailures \cup
  {Body(b) : b \in {NOT_UTF8, "not json", "", "{}", "[1]",
                    ID_A1, ID_NULL, ID_EMPTY, ID_SEVEN}}

StatusOutcomes ==
  TransportFailures \cup
  {Body(b) : b \in {NOT_UTF8, "not json", "", "[1]",
                    ST_PENDING, ST_APPROVED, ST_DENIED, ST_DENIED_WHY,
                    ST_DENIED_EMPTY, ST_DENIED_NULL, ST_DENIED_NUM,
                    ST_TIMED_OUT, ST_FROB, ST_NULL}}

StdinPayloads == {"", "not json", "{}", REQ_FULL, REQ_NULLS, "[1]", "null"}

\* how long a call may take: no time at all, or the whole urlopen timeout
CallDurations(outcome) ==
  IF outcome.exc = "TimeoutError" THEN {HTTP_TIMEOUT} ELSE {0, HTTP_TIMEOUT}

\* bytes.decode("utf-8")
Decode(bytes) ==
  IF bytes = NOT_UTF8
    THEN [exc |-> "UnicodeDecodeError",
          msg |-> "'utf-8' codec can't decode byte 0xff in position 0: invalid start byte",
          text |-> ""]
    ELSE [exc |-> "", msg |-> "", text |-> bytes]

\* with urlopen(req, timeout=10) as resp:
\*     return json.loads(resp.read().decode("utf-8") or "{}")
ReadJson(outcome) ==
  IF outcome.exc # ""
    THEN Raised(outcome.exc, outcome.msg)
    ELSE LET d == Decode(outcome.body)
         IN  IF d.exc # "" THEN Raised(d.exc, d.msg)
             ELSE JsonLoads(OrEmptyObject(d.text))

\* the except clauses of http_post_json and of http_get_json
PostCaught == {"HTTPError", "URLError", "TimeoutError", "JSONDecodeError"}

GetCaught == {"HTTPError", "URLError", "TimeoutError", "JSONDecodeError"}

CREATE_FAILED == "Failed to create approval request. Backend may be unavailable. ("

LOST_CONNECTION == "Lost connection to approval backend: "

\* a reply as the run receives it: what urlopen did, and when
Received(outcome, now) ==
  [exc |-> outcome.exc, msg |-> outcome.msg, body |-> outcome.body, at |-> now]

\* a call either returns a document or ends the run
Return(doc) == [returns |-> TRUE, doc |-> doc, end |-> json_success]

Exit(end) == [returns |-> FALSE, doc |-> NonDict("None"), end |-> end]

http_post_json(outcome) ==
  LET r == ReadJson(outcome)
  IN  IF r.exc = "" THEN Return(r.doc)
      ELSE IF r.exc \in PostCaught
        THEN Exit(json_error(FString(<<CREATE_FAILED, r.msg, ")">>)))
        ELSE Exit(Uncaught(r.exc))

http_get_json(outcome) ==
  LET r == ReadJson(outcome)
  IN  IF r.exc = "" THEN Return(r.doc)
      ELSE IF r.exc \in GetCaught
        THEN Exit(json_error(FString(<<LOST_CONNECTION, r.msg>>)))
        ELSE Exit(Uncaught(r.exc))

(* ---------------- main ---------------- *)

\* the counter interpolated in place of the constant
TimeoutReason_elapsed ==
  FString(<<"Approval request timed out after ", ToString(elapsed), " seconds">>)

TimeoutReason ==
  FString(<<"Approval request timed out after ", ToString(TIMEOUT_SECONDS), " seconds">>)

Notice(id) ==
  FString(<<"Approval request created: ">> \o PyStr(id) \o <<". Waiting for user response...">>)

\* the f prefix left off the last part of the URL
StatusUrl_literal(id) == <<BACKEND_URL, "/api/approvals/{approval_id}/status">>

StatusUrl(id) == <<BACKEND_URL, "/api/approvals/">> \o PyStr(id) \o <<"/status">>

CreatePayload(incoming) ==
  [tool_name  |-> Get(incoming, "tool_name"),
   tool_input |-> Get(incoming, "tool_input"),
   session_id |-> GetOr(incoming, "session_id", Str("unknown"))]

PostCall(payload) ==
  [method |-> "POST", url |-> CREATE_URL, body |-> <<payload>>, at |-> clock]

GetCall(id, now) ==
  [method |-> "GET", url |-> StatusUrl(id), body |-> <<>>, at |-> now]

\* the loop left one interval too early
LoopTest_early(e) == e + POLL_INTERVAL < TIMEOUT_SECONDS

\* the loop left one interval too late
LoopTest_late(e) == e < TIMEOUT_SECONDS + POLL_INTERVAL

\* the loop run on the wall clock instead of the counter
LoopTest_clock(e) == clock < TIMEOUT_SECONDS

\* while elapsed < TIMEOUT_SECONDS
LoopTest(e) == e < TIMEOUT_SECONDS

\* the head of the poll loop, reached with elapsed = e at time now: the next
\* status call is issued, or the loop is left for the final json_error
LoopHead(id, e, now, notice) ==
  IF LoopTest(e)
    THEN /\ calls' = Append(calls, GetCall(id, now))
         /\ pc' = "get"
         /\ stderr' = stderr \o notice
         /\ UNCHANGED <<stdout, exit_code>>
    ELSE /\ Terminate(notice, json_error(TimeoutReason))
         /\ UNCHANGED calls

\* a decode error swallowed: the payload is taken to be the empty object
StdinParse_swallow(raw) ==
  LET r == JsonLoads(OrEmptyObject(raw))
  IN  IF r.exc = "" THEN r ELSE Returned(Dict(NoFields))

\* line 79: json.loads(raw_payload or "{}")
StdinParse(raw) == JsonLoads(OrEmptyObject(raw))

Init ==
  /\ stdin \in StdinPayloads
  /\ pc = "start"
  /\ approval_id = None
  /\ elapsed = 0
  /\ clock = 0
  /\ stdout = <<>>
  /\ stderr = <<>>
  /\ exit_code = <<>>
  /\ calls = <<>>
  /\ replies = <<>>
  /\ first = <<>>

\* lines 77-93: read and parse stdin, build the payload, send the POST
Start ==
  /\ pc = "start"
  /\ LET parsed == StdinParse(stdin)
     IN  IF parsed.exc = "JSONDecodeError"
           THEN /\ Terminate(<<>>, json_error(Str("Invalid JSON payload on stdin")))
                /\ UNCHANGED calls
         ELSE IF parsed.doc.kind # "dict"
           THEN /\ Terminate(<<>>, Uncaught("AttributeError"))
                /\ UNCHANGED calls
         ELSE /\ calls' = Append(calls, PostCall(CreatePayload(parsed.doc)))
              /\ pc' = "post"
              /\ UNCHANGED <<stdout, stderr, exit_code>>
  /\ UNCHANGED <<stdin, approval_id, elapsed, clock, replies, first>>

\* the counter seeded with a whole interval
ELAPSED_SEED_interval == POLL_INTERVAL

ELAPSED_SEED == 1

\* lines 93-108: the POST comes back; id, notice, id check, first loop test
CreateReturns ==
  /\ pc = "post"
  /\ \E o \in CreateOutcomes : \E d \in CallDurations(o) :
       /\ clock' = clock + d
       /\ replies' = Append(replies, Received(o, clock'))
       /\ LET r == http_post_json(o)
              id == Get(r.doc, "id")
          IN  IF ~r.returns
                THEN /\ Terminate(<<>>, r.end)
                     /\ UNCHANGED <<approval_id, elapsed, calls>>
              ELSE IF r.doc.kind # "dict"
                THEN /\ Terminate(<<>>, Uncaught("AttributeError"))
                     /\ UNCHANGED <<approval_id, elapsed, calls>>
              ELSE IF ~Truthy(id)
                THEN /\ approval_id' = id
                     /\ Terminate(<<Notice(id)>>,
                                  json_error(Str("Invalid response from approval backend")))
                     /\ UNCHANGED <<elapsed, calls>>
              ELSE /\ approval_id' = id
                   /\ elapsed' = ELAPSED_SEED
                   /\ LoopHead(id, ELAPSED_SEED, clock', <<Notice(id)>>)
  /\ UNCHANGED <<stdin, first>>

\* lines 108-122: a GET comes back and its status is classified
StatusReturns ==
  /\ pc = "get"
  /\ \E o \in StatusOutcomes : \E d \in CallDurations(o) :
       /\ clock' = clock + d
       /\ replies' = Append(replies, Received(o, clock'))
       /\ LET r == http_get_json(o)
              status == Get(r.doc, "status")
          IN  IF ~r.returns
                THEN Terminate(<<>>, r.end)
              ELSE IF r.doc.kind # "dict"
                THEN Terminate(<<>>, Uncaught("AttributeError"))
              ELSE IF status = Str("approved")
                THEN Terminate(<<>>, json_success)
              ELSE IF status = Str("denied")
                THEN Terminate(<<>>, json_error(PyOr(Get(r.doc, "reason"), Str("User denied"))))
              ELSE IF status = Str("timed_out")
                THEN Terminate(<<>>, json_error(TimeoutReason))
              ELSE IF status = Str("pending")
                THEN /\ pc' = "sleep"
                     /\ UNCHANGED <<stdout, stderr, exit_code>>
              ELSE Terminate(<<>>, json_error(FString(<<"Unknown approval status: ">> \o PyStr(status))))
  /\ UNCHANGED <<stdin, approval_id, elapsed, calls, first>>

\* lines 119-120, then 107 and 124: the sleep ends, elapsed grows, loop test
SleepEnds ==
  /\ pc = "sleep"
  /\ clock' = clock + POLL_INTERVAL
  /\ elapsed' = elapsed + POLL_INTERVAL
  /\ LoopHead(approval_id, elapsed', clock', <<>>)
  /\ UNCHANGED <<stdin, approval_id, replies, first>>

Next == Start \/ CreateReturns \/ StatusReturns \/ SleepEnds

Spec == Init /\ [][Next]_vars

\* every blocking call returns or fails and every sleep ends
FairSpec == Spec /\ WF_vars(Next)

(* ---------------- the same payload run twice ---------------- *)

\* the requests of a run without their times
Requests(cs) ==
  [i \in 1..Len(cs) |-> [method |-> cs[i].method, url |-> cs[i].url, body |-> cs[i].body]]

\* the backend's answers to a run without their times: its script
Script(rs) ==
  [i \in 1..Len(rs) |-> [exc |-> rs[i].exc, msg |-> rs[i].msg, body |-> rs[i].body]]

IsPrefix(a, b) == Len(a) <= Len(b) /\ \A i \in 1..Len(a) : a[i] = b[i]

\* a second, independent process is started on the same payload once the
\* first has exited; what the first printed, requested and was answered is kept
Rerun ==
  /\ pc = "exited"
  /\ first = <<>>
  /\ first' = <<[stdout |-> stdout, exit_code |-> exit_code,
                 calls |-> Requests(calls), script |-> Script(replies)]>>
  /\ pc' = "start"
  /\ approval_id' = None
  /\ elapsed' = 0
  /\ clock' = 0
  /\ stdout' = <<>>
  /\ stderr' = <<>>
  /\ exit_code' = <<>>
  /\ calls' = <<>>
  /\ replies' = <<>>
  /\ UNCHANGED stdin

\* in the second run the backend answers from the first run's script, in
\* order; how long each call takes is free again
FollowsScript == first = <<>> \/ IsPrefix(Script(replies), first[1].script)

Replay == Next /\ FollowsScript'

TwoRunNext == Replay \/ Rerun

TwoRunSpec == Init /\ [][TwoRunNext]_vars

TypeOK ==
  /\ pc \in {"start", "post", "get", "sleep", "exited"}
  /\ elapsed \in 0..(TIMEOUT_SECONDS + POLL_INTERVAL)
  /\ Len(exit_code) <= 1

(* ---------------- vocabulary of the properties ---------------- *)

RECURSIVE Flatten(_)
\* the text of a sequence of fragments
Flatten(parts) == IF parts = <<>> THEN "" ELSE Head(parts) \o Flatten(Tail(parts))

Exited == pc = "exited"

Gets == {i \in 1..Len(calls) : calls[i].method = "GET"}

Posts == {i \in 1..Len(calls) : calls[i].method = "POST"}

IsDeny(doc) == doc.permissionDecision = "deny"

IsAllow(doc) == doc.permissionDecision = "allow" /\ doc.suppressOutput = <<TRUE>>

\* the one document on stdout is a Deny whose reason is exactly this text
DeniedWith(text) ==
  /\ Len(stdout) = 1
  /\ IsDeny(stdout[1])
  /\ stdout[1].permissionDecisionReason[1].kind = "str"
  /\ Flatten(stdout[1].permissionDecisionReason[1].s) = text

\* the one document on stdout is a Deny whose reason contains both texts
DeniedMentioning(phrase, detail) ==
  /\ Len(stdout) = 1
  /\ IsDeny(stdout[1])
  /\ Contains(stdout[1].permissionDecisionReason[1], phrase)
  /\ Contains(stdout[1].permissionDecisionReason[1], detail)

Allowed == Len(stdout) = 1 /\ IsAllow(stdout[1])

\* C1: every run that has ended wrote exactly one verdict and exited with
\* status 0, and no run ever writes a second verdict.
C1_OneVerdictExitZero ==
  /\ Len(stdout) <= 1
  /\ Exited => /\ Len(stdout) = 1
               /\ IsDeny(stdout[1]) \/ IsAllow(stdout[1])
               /\ exit_code = <<0>>

\* a payload the claim calls malformed: text that json.loads rejects
NotJson(text) == text # "" /\ JsonLoads(text).exc = "JSONDecodeError"

InvalidStdinDenied ==
  /\ calls = <<>>
  /\ pc # "start" => /\ Exited
                     /\ DeniedWith("Invalid JSON payload on stdin")
                     /\ exit_code = <<0>>

\* C2 as stated: an empty payload, like one that is not valid JSON, is denied
\* with "Invalid JSON payload on stdin" and no network call is issued.
C2_EmptyOrInvalidStdinDenied ==
  (stdin = "" \/ NotJson(stdin)) => InvalidStdinDenied

\* C2 amended: a non-empty payload that is not valid JSON is denied with
\* "Invalid JSON payload on stdin" and no network call is issued; an empty
\* payload is read as the empty object and goes on to the create call.
C2_InvalidStdinDenied ==
  /\ NotJson(stdin) => InvalidStdinDenied
  /\ (stdin = "" /\ pc # "start") => (Len(calls) >= 1 /\ calls[1].method = "POST")

C2_Witness == NotJson(stdin) /\ Exited /\ DeniedWith("Invalid JSON payload on stdin")

\* C3: no status call is issued later than 30 time units after the start of
\* the run, and the run is not still polling after that time.
C3_WallClockDeadline ==
  /\ \A i \in Gets : calls[i].at <= 30
  /\ pc \in {"get", "sleep"} => clock <= 30

\* C4: under fairness (every call returns, every sleep ends) every run
\* eventually has emitted exactly one verdict and terminated.
C4_EventuallyVerdict == <>(Exited /\ Len(stdout) = 1)

\* every run does terminate, with or without a verdict
EventuallyExited == <>Exited

(* ---------------- what the backend answered ---------------- *)

\* the create reply is an object with an id that is present, not null, not empty
UsableIdReply(o) ==
  LET r == ReadJson(o)
  IN  /\ r.exc = ""
      /\ r.doc.kind = "dict"
      /\ "id" \in r.doc.has
      /\ r.doc.get["id"] \notin {None, Str("")}

\* the create reply is an object whose id is absent, null or empty
NoUsableIdReply(o) ==
  LET r == ReadJson(o)
  IN  /\ r.exc = ""
      /\ r.doc.kind = "dict"
      /\ ("id" \notin r.doc.has \/ r.doc.get["id"] \in {None, Str("")})

\* the call failed: transport, HTTP status, timeout, or a body that is not JSON
FailedReply(o) == ReadJson(o).exc # ""

StatusIs(o, value) ==
  LET r == ReadJson(o)
  IN  r.exc = "" /\ r.doc.kind = "dict" /\ r.doc.get["status"] = Str(value)

CreatedOk == Len(replies) >= 1 /\ UsableIdReply(replies[1])

\* replies 2..n are the status replies
AllPendingUpTo(n) == \A i \in 2..n : StatusIs(replies[i], "pending")

\* the backend answered pending k times and then approved
PendingThenApproved(k) ==
  /\ CreatedOk
  /\ Len(replies) = k + 2
  /\ AllPendingUpTo(k + 1)
  /\ StatusIs(replies[k + 2], "approved")

\* the backend has answered pending to every status call so far
OnlyPending == CreatedOk /\ AllPendingUpTo(Len(replies))

\* C5: after k pending replies and then approved, 5k + 1 < 30, the run has
\* ended with exactly the Allow verdict and exactly k + 1 status calls; and
\* after k such pending replies the run has not stopped short of call k + 1.
C5_PendingThenApproved ==
  \A k \in {n \in 0..10 : 5 * n + 1 < 30} :
    /\ PendingThenApproved(k) =>
         Exited /\ Allowed /\ exit_code = <<0>> /\ Cardinality(Gets) = k + 1
    /\ (OnlyPending /\ Len(replies) = k + 1) => ~Exited

C5_Witness == PendingThenApproved(5) /\ Exited /\ Allowed

\* C6: when every status reply is pending, the run makes at most 6 status
\* calls with elapsed running 1, 6, ..., 31, and ends with the Deny verdict
\* "Approval request timed out after 30 seconds".
C6_AllPendingTimesOut ==
  OnlyPending =>
    /\ Cardinality(Gets) <= 6
    /\ elapsed = 1 + 5 * (Len(replies) - 1 - (IF pc = "sleep" THEN 1 ELSE 0))
    /\ Exited => /\ DeniedWith("Approval request timed out after 30 seconds")
                 /\ exit_code = <<0>>
                 /\ elapsed = 31

C6_Witness == OnlyPending /\ Exited /\ Cardinality(Gets) = 6

\* C7: every status call comes after a create call that returned a usable id
\* and is addressed to that id's status URL; the create call is the first
\* call; call i is issued only once call i-1 has been answered, so at most
\* one call is in flight.
C7_CreateBeforePoll ==
  /\ Len(calls) - Len(replies) \in {0, 1}
  /\ \A i \in 1..Len(calls) : (i > 1) => calls[i].at >= replies[i - 1].at
  /\ \A i \in Gets :
       /\ i > 1
       /\ calls[1].method = "POST"
       /\ UsableIdReply(replies[1])
       /\ calls[i].at >= replies[1].at
       /\ calls[i].url = StatusUrl(ReadJson(replies[1]).doc.get["id"])

C7_Witness == Cardinality(Gets) >= 2 /\ pc = "get"

\* C8: a failed create call (transport failure, non-2xx, timeout, body not
\* valid JSON) ends the run at once with a Deny whose reason has the
\* backend-unavailable message and the error text; one call in all, no GET.
C8_CreateFailureDenied ==
  (Len(replies) >= 1 /\ FailedReply(replies[1])) =>
    /\ Exited
    /\ DeniedMentioning(CREATE_FAILED, ReadJson(replies[1]).msg)
    /\ exit_code = <<0>>
    /\ Len(calls) = 1

\* C9: a create reply without a usable id (absent, null, empty) ends the run
\* with the Deny verdict "Invalid response from approval backend" and no
\* status call.
C9_MissingIdDenied ==
  (Len(replies) >= 1 /\ NoUsableIdReply(replies[1])) =>
    /\ Exited
    /\ DeniedWith("Invalid response from approval backend")
    /\ exit_code = <<0>>
    /\ Gets = {}

C9_Witness ==
  /\ Len(replies) = 1
  /\ replies[1].body = ID_EMPTY
  /\ Exited
  /\ DeniedWith("Invalid response from approval backend")

\* C10: a failed status call ends the run at once with a Deny whose reason
\* has "Lost connection to approval backend" and the error, and no call
\* follows it; a status call after the first follows a pending reply, exactly
\* 5 time units after that reply arrived.
C10_OnlyPendingRetried ==
  /\ \A i \in 2..Len(replies) :
       FailedReply(replies[i]) =>
         /\ Exited
         /\ DeniedMentioning(LOST_CONNECTION, ReadJson(replies[i]).msg)
         /\ exit_code = <<0>>
         /\ Len(calls) = i
  /\ \A i \in Gets :
       (i > 2) => /\ StatusIs(replies[i - 1], "pending")
                  /\ calls[i].at = replies[i - 1].at + 5

(* ---------------- the final status reply ---------------- *)

LastReply == replies[Len(replies)]

\* the run has ended on a status reply whose status is this value
EndedOn(value) == Exited /\ Len(replies) >= 2 /\ StatusIs(LastReply, value)

LastDoc == ReadJson(LastReply).doc

\* the reason the one Deny on stdout carries, as a Python value
DenyReason == stdout[1].permissionDecisionReason[1]

\* C11 as stated: on denied the Deny reason is the reply's reason field
\* whenever the reply has one, and "User denied" only when it has none.
C11_ReasonWheneverPresent ==
  EndedOn("denied") =>
    /\ Len(stdout) = 1 /\ IsDeny(stdout[1])
    /\ "reason" \in LastDoc.has => DenyReason = LastDoc.get["reason"]
    /\ "reason" \notin LastDoc.has => DeniedWith("User denied")

\* null, "", 0, false and empty containers: what Python's `or` passes over
Falsy(v) ==
  \/ v.kind = "None"
  \/ v.kind = "str" /\ Flatten(v.s) = ""
  \/ v.kind = "int" /\ Flatten(v.s) = "0"
  \/ v.kind = "bool" /\ Flatten(v.s) = "False"
  \/ v.kind \in {"list", "dict"} /\ Flatten(v.s) \in {"[]", "{}"}

\* C11 amended: on denied the Deny reason is the reply's reason field
\* verbatim when that field is present and not null, empty, zero or false,
\* and "User denied" when the field is absent, null or empty.
C11_ReasonOrFallback ==
  EndedOn("denied") =>
    /\ Len(stdout) = 1 /\ IsDeny(stdout[1]) /\ exit_code = <<0>>
    /\ ("reason" \in LastDoc.has /\ ~Falsy(LastDoc.get["reason"]))
         => DenyReason = LastDoc.get["reason"]
    /\ ("reason" \notin LastDoc.has \/ Falsy(LastDoc.get["reason"]))
         => DeniedWith("User denied")

C11_Witness ==
  /\ EndedOn("denied")
  /\ LastReply.body = ST_DENIED_WHY
  /\ DeniedWith("not allowed here")

\* the reply is an object whose status is none of the four known values
\* (a missing status reads as None)
UnknownStatusReply(o) ==
  LET r == ReadJson(o)
  IN  /\ r.exc = ""
      /\ r.doc.kind = "dict"
      /\ r.doc.get["status"] \notin
           {Str("pending"), Str("approved"), Str("denied"), Str("timed_out")}

\* the value as the reason cites it
Cited(v) == IF v.kind = "None" THEN "None" ELSE Flatten(v.s)

\* C12: a status reply with an unknown status (or none) ends the run with the
\* Deny verdict "Unknown approval status: <value>"; it is the last reply and
\* no call follows it.
C12_UnknownStatusDenied ==
  \A i \in 2..Len(replies) :
    UnknownStatusReply(replies[i]) =>
      /\ Exited
      /\ i = Len(replies)
      /\ Len(calls) = i
      /\ exit_code = <<0>>
      /\ DeniedWith("Unknown approval status: "
                      \o Cited(ReadJson(replies[i]).doc.get["status"]))

C12_Witness ==
  /\ Exited
  /\ Len(replies) >= 3
  /\ LastReply.body = ST_FROB
  /\ DeniedWith("Unknown approval status: frobnicated")

(* ---------------- the two channels ---------------- *)

NOTICE_HEAD == "Approval request created: "

\* the progress notices written to stderr so far
Notices == {i \in 1..Len(stderr) : Len(stderr[i].s) >= 1 /\ stderr[i].s[1] = NOTICE_HEAD}

\* C13: a progress notice is on stderr only if the create call returned a
\* usable id, and it contains that id; stdout never holds anything but the
\* one Allow or Deny document.
C13_NoticeOnlyAfterCreation ==
  /\ \A i \in Notices :
       /\ CreatedOk
       /\ Contains(stderr[i], Flatten(ReadJson(replies[1]).doc.get["id"].s))
  /\ Len(stdout) <= 1
  /\ \A j \in 1..Len(stdout) : IsAllow(stdout[j]) \/ IsDeny(stdout[j])

\* the rest of C13 without the bug: stdout holds at most the one verdict and
\* a notice names the id the run holds
StdoutOnlyVerdict ==
  /\ Len(stdout) <= 1
  /\ \A j \in 1..Len(stdout) : IsAllow(stdout[j]) \/ IsDeny(stdout[j])
  /\ \A i \in Notices : stderr[i] = Notice(approval_id)

(* ---------------- the two timeouts ---------------- *)

\* the loop was left by its test: the run ended right after a sleep
DeadlineExhausted == Exited /\ OnlyPending /\ elapsed >= 30

\* C14: a timed_out status reply and the exhaustion of the deadline end the
\* run with the same verdict, Deny "Approval request timed out after 30
\* seconds"; a timed_out reply is the last reply and no call follows it.
C14_SameTimeoutVerdict ==
  /\ \A i \in 2..Len(replies) :
       StatusIs(replies[i], "timed_out") =>
         /\ Exited
         /\ i = Len(replies)
         /\ Len(calls) = i
         /\ exit_code = <<0>>
         /\ DeniedWith("Approval request timed out after 30 seconds")
  /\ DeadlineExhausted =>
         /\ exit_code = <<0>>
         /\ DeniedWith("Approval request timed out after 30 seconds")
  /\ (Exited /\ CreatedOk /\ elapsed >= 30) => OnlyPending

C14_Witness ==
  /\ EndedOn("timed_out")
  /\ Len(replies) >= 3
  /\ DeniedWith("Approval request timed out after 30 seconds")

(* ---------------- the Deny reason, the counter, Allow, the id -------- *)

\* C16: every Deny document on stdout carries a reason that is a string.
C16_DenyReasonIsString ==
  \A j \in 1..Len(stdout) :
    IsDeny(stdout[j]) => stdout[j].permissionDecisionReason[1].kind = "str"

Polling == pc \in {"get", "sleep"}

\* a status call is issued in this step
IssuesGet == Len(calls') = Len(calls) + 1 /\ calls'[Len(calls')].method = "GET"

\* what one step may do to elapsed
ElapsedStep ==
  /\ (elapsed' # elapsed) =>
       ( \/ (pc = "post" /\ elapsed' = 1)
         \/ (pc = "sleep" /\ StatusIs(LastReply, "pending") /\ elapsed' = elapsed + 5) )
  /\ (pc = "get") => (elapsed' = elapsed)
  /\ IssuesGet => (elapsed' < 30 /\ (pc = "sleep" => elapsed' > elapsed))
  /\ (pc = "sleep" /\ ~IssuesGet) => (elapsed' >= 30)

\* C17: in the poll loop elapsed is one of 1, 6, ..., 31 and below 30 while a
\* status call is in flight; it is set to 1 when the loop is entered and from
\* then on changes only by +5 at the end of the sleep that follows a pending
\* reply; each status call after the first is issued with a larger elapsed
\* than the one before, and only with elapsed < 30.
C17_ElapsedCounter ==
  /\ [](Polling => elapsed \in {1, 6, 11, 16, 21, 26, 31})
  /\ [](pc = "get" => elapsed < 30)
  /\ [][ElapsedStep]_vars

C17_Witness == pc = "get" /\ elapsed = 26 /\ Cardinality(Gets) = 6

\* C18: an Allow document is on stdout only if the create call returned a
\* usable id and the last status reply was approved.
C18_FailClosed ==
  \A j \in 1..Len(stdout) :
    ~IsDeny(stdout[j]) =>
      /\ IsAllow(stdout[j])
      /\ CreatedOk
      /\ EndedOn("approved")
      /\ Cardinality(Gets) = Len(replies) - 1

C18_Witness == Allowed /\ EndedOn("approved") /\ CreatedOk

\* the text of the status URL for this id
StatusUrlText(id) == "http://127.0.0.1:3002/api/approvals/" \o Flatten(id.s) \o "/status"

\* C19: at most one create call is issued; every status call goes to the
\* status URL of the id the create reply carried, which is the id the run
\* holds; once set, approval_id never changes.
C19_OneCreateOneId ==
  /\ [](Cardinality(Posts) <= 1)
  /\ [](\A i \in Gets :
          /\ approval_id = ReadJson(replies[1]).doc.get["id"]
          /\ Flatten(calls[i].url) = StatusUrlText(approval_id))
  /\ [][pc # "post" => approval_id' = approval_id]_vars

C19_Witness ==
  /\ Cardinality(Gets) >= 2
  /\ Len(replies) >= 3
  /\ approval_id = Num("7")

(* ---------------- determinism ---------------- *)

SecondRun == first # <<>>

\* C15: a second run on the same payload, answered from the same script,
\* issues the same requests in the same order as the first and, once it has
\* ended, has consumed the whole script, written the same stdout and exited
\* with the same status, however long its calls took.
C15_SameScriptSameOutput ==
  SecondRun =>
    /\ IsPrefix(Requests(calls), first[1].calls)
    /\ Exited => /\ stdout = first[1].stdout
                 /\ exit_code = first[1].exit_code
                 /\ Requests(calls) = first[1].calls
                 /\ Script(replies) = first[1].script

C15_Witness ==
  /\ SecondRun
  /\ Exited
  /\ Len(first[1].script) >= 3
  /\ Allowed
  /\ clock > 0

====
